---- MODULE Spec2Model ----
(***************************************************************************)
(* Model of the Powerball analysis pipeline:                               *)
(*   powerball_auto_analysis.py  (_detect_and_split_winning_numbers,       *)
(*                                preprocess, analyze,                     *)
(*                                generate_weighted_picks_from_df)         *)
(*   streamlit_app.py            (the per-draw-day weighted pick loop)     *)
(*                                                                         *)
(* A string is a sequence of one-character strings, a table is a record    *)
(* of row labels and named columns, a cell is a record tagged with its     *)
(* kind (missing, integer, string).                                        *)
(***************************************************************************)
EXTENDS Integers, Sequences, FiniteSets, TLC

(***************************************************************************)
(* Cells and strings                                                       *)
(***************************************************************************)
NaN == [k |-> "nan", i |-> 0, s |-> <<>>]
IntCell(v) == [k |-> "int", i |-> v, s |-> <<>>]
StrCell(str) == [k |-> "str", i |-> 0, s |-> str]

Digits == <<"0", "1", "2", "3", "4", "5", "6", "7", "8", "9">>
DigitSet == {Digits[d] : d \in DOMAIN Digits}
DigitVal(c) == (CHOOSE d \in DOMAIN Digits : Digits[d] = c) - 1

\* str(n) for an integer n
RECURSIVE NatToStr(_)
NatToStr(n) == IF n < 10 THEN <<Digits[n + 1]>>
               ELSE NatToStr(n \div 10) \o <<Digits[(n % 10) + 1]>>
IntToStr(n) == IF n < 0 THEN <<"-">> \o NatToStr(-n) ELSE NatToStr(n)

\* Series.astype(str) on one cell: a missing value becomes the text "nan"
AsStr(c) == CASE c.k = "nan" -> <<"n", "a", "n">>
              [] c.k = "int" -> IntToStr(c.i)
              [] OTHER -> c.s

\* str.replace(old, new) for one-character old and new
ReplaceChar(str, old, new) ==
    [p \in DOMAIN str |-> IF str[p] = old THEN new ELSE str[p]]

\* re.sub(r'\s+', ' ', str)
RECURSIVE CollapseWs(_)
CollapseWs(str) ==
    IF Len(str) < 2 THEN str
    ELSE IF str[1] = " " /\ str[2] = " " THEN CollapseWs(Tail(str))
    ELSE <<str[1]>> \o CollapseWs(Tail(str))

\* str.lstrip(ch)
RECURSIVE LStripChar(_, _)
LStripChar(str, ch) ==
    IF str # <<>> /\ str[1] = ch THEN LStripChar(Tail(str), ch) ELSE str

RECURSIVE RStripChar(_, _)
RStripChar(str, ch) ==
    IF str # <<>> /\ str[Len(str)] = ch
    THEN RStripChar(SubSeq(str, 1, Len(str) - 1), ch) ELSE str

\* str.strip()
Strip(str) == RStripChar(LStripChar(str, " "), " ")

\* str.split(' '): every separator cuts, empty tokens are kept
RECURSIVE SplitOn(_, _, _)
SplitOn(str, sep, cur) ==
    IF str = <<>> THEN <<cur>>
    ELSE IF str[1] = sep THEN <<cur>> \o SplitOn(Tail(str), sep, <<>>)
    ELSE SplitOn(Tail(str), sep, Append(cur, str[1]))
SplitSpace(str) == SplitOn(str, " ", <<>>)

\* str.split(): runs of whitespace cut, no empty token is produced
SplitWs(str) == SelectSeq(SplitSpace(str), LAMBDA t : t # <<>>)

\* str.isdigit()
IsDigit(str) == str # <<>> /\ \A p \in DOMAIN str : str[p] \in DigitSet

RECURSIVE DigitsToNat(_, _)
DigitsToNat(str, acc) ==
    IF str = <<>> THEN acc
    ELSE DigitsToNat(Tail(str), acc * 10 + DigitVal(str[1]))

\* int(str): surrounding blanks and one sign are accepted, then digits only
Unsigned(str) == IF str # <<>> /\ str[1] \in {"-", "+"} THEN Tail(str) ELSE str
PyIntOk(str) == IsDigit(Unsigned(Strip(str)))
PyInt(str) ==
    LET t == Strip(str)
        v == DigitsToNat(Unsigned(t), 0)
    IN IF t # <<>> /\ t[1] = "-" THEN -v ELSE v

(***************************************************************************)
(* Tables                                                                  *)
(***************************************************************************)
Max(a, b) == IF a >= b THEN a ELSE b
InSeq(x, seq) == \E p \in DOMAIN seq : seq[p] = x
RangeIndex(n) == [p \in 1..n |-> p - 1]
NoTable == [index |-> <<>>, cols |-> <<>>]
NRows(t) == Len(t.index)
HasCol(t, name) == \E p \in DOMAIN t.cols : t.cols[p].name = name
\* df[name]: the cells of the column called name
Col(t, name) == t.cols[CHOOSE p \in DOMAIN t.cols : t.cols[p].name = name].cells
\* df[name] = cells: overwrite the column, or append a new one
SetCol(t, name, cells) ==
    IF HasCol(t, name)
    THEN [t EXCEPT !.cols = [p \in DOMAIN t.cols |->
              IF t.cols[p].name = name THEN [name |-> name, cells |-> cells]
              ELSE t.cols[p]]]
    ELSE [t EXCEPT !.cols = Append(t.cols, [name |-> name, cells |-> cells])]

\* c.lower() for the column names that occur in the modelled tables
MixedCase == << <<"White1", "white1">>, <<"White2", "white2">>,
                <<"White3", "white3">>, <<"White4", "white4">>,
                <<"White5", "white5">>, <<"Powerball", "powerball">>,
                <<"Winning Numbers", "winning numbers">>,
                <<"Numbers", "numbers">>, <<"Draw Date", "draw date">>,
                <<"Multiplier", "multiplier">> >>
Lower(c) == IF \E p \in DOMAIN MixedCase : MixedCase[p][1] = c
            THEN MixedCase[CHOOSE p \in DOMAIN MixedCase : MixedCase[p][1] = c][2]
            ELSE c

cols_lower(df) == [p \in DOMAIN df.cols |-> Lower(df.cols[p].name)]
\* col_map = {c.lower(): c for c in columns}: a later column overwrites
col_map(df, low) ==
    LET ps == {p \in DOMAIN df.cols : Lower(df.cols[p].name) = low}
        last == CHOOSE p \in ps : \A q \in ps : q <= p
    IN df.cols[last].name

required == <<"white1", "white2", "white3", "white4", "white5", "powerball">>
single_col_candidates ==
    <<"winning_numbers", "winning numbers", "winningnumbers", "winning number",
      "winning_number", "numbers", "winning_numbers_with_powerball",
      "drawn_numbers">>

(***************************************************************************)
(* _detect_and_split_winning_numbers: which column holds the numbers       *)
(***************************************************************************)
SampleSize == 20
MinLooksLike == 3
SampleDivisor == 4
NumFields == 6

\* Case A test: every canonical name is among the lower-cased names
HasCanonical(df) == \A r \in DOMAIN required : InSeq(required[r], cols_lower(df))

\* Case B: the first candidate of the list that is a lower-cased column name
AliasHits(df) == {a \in DOMAIN single_col_candidates :
                     InSeq(single_col_candidates[a], cols_lower(df))}
FirstAlias(df) == CHOOSE a \in AliasHits(df) : \A b \in AliasHits(df) : a <= b

\* df[col].dropna().astype(str).head(20).tolist()
Sample(cells) ==
    LET present == SelectSeq(cells, LAMBDA c : c.k # "nan")
        strs == [p \in DOMAIN present |-> AsStr(present[p])]
    IN SubSeq(strs, 1, IF Len(strs) < SampleSize THEN Len(strs) ELSE SampleSize)

\* one sampled value "looks like" six numbers
LooksLike(str) ==
    LET parts == SplitWs(ReplaceChar(Strip(str), ",", " "))
    IN /\ Len(parts) >= NumFields
       /\ \A p \in 1..NumFields : IsDigit(LStripChar(Strip(parts[p]), "0"))

CountLooksLike(sample) == Cardinality({p \in DOMAIN sample : LooksLike(sample[p])})
looks_like(cells) == CountLooksLike(Sample(cells))

\* variant: the threshold does not grow with the sample
Threshold_FlatThree(n) == MinLooksLike
\* looks_like >= max(3, len(sample)//4)
Threshold(n) == Max(MinLooksLike, n \div SampleDivisor)
Qualifies(cells) == looks_like(cells) >= Threshold(Len(Sample(cells)))

HeuristicHits(df) == {p \in DOMAIN df.cols : Qualifies(df.cols[p].cells)}

\* the heuristic scan of lines 76-92, run when no candidate name matched
HeuristicPick(df, hits) ==
    IF hits # {}
    THEN [via |-> "heuristic",
          match_col |-> df.cols[CHOOSE p \in hits : \A q \in hits : p <= q].name]
    ELSE [via |-> "none", match_col |-> ""]

\* variant: the heuristic scan is tried before the candidate names
DetectColumn_HeuristicFirst(df) ==
    IF HasCanonical(df) THEN [via |-> "canonical", match_col |-> ""]
    ELSE IF HeuristicHits(df) # {} THEN HeuristicPick(df, HeuristicHits(df))
    ELSE IF AliasHits(df) # {}
    THEN [via |-> "alias",
          match_col |-> col_map(df, single_col_candidates[FirstAlias(df)])]
    ELSE [via |-> "none", match_col |-> ""]

\* the branch taken and the column selected (match_col)
DetectColumn(df) ==
    IF HasCanonical(df) THEN [via |-> "canonical", match_col |-> ""]
    ELSE IF AliasHits(df) # {}
    THEN [via |-> "alias",
          match_col |-> col_map(df, single_col_candidates[FirstAlias(df)])]
    ELSE HeuristicPick(df, HeuristicHits(df))

(***************************************************************************)
(* _detect_and_split_winning_numbers: Case A, the six columns exist        *)
(***************************************************************************)
\* variant: a missing value is let through and counted as 0
CellIntOk_Lenient(c) == c.k \in {"int", "nan"} \/ (c.k = "str" /\ PyIntOk(c.s))
\* astype(int) on one cell: a missing value or a non-numeric text raises
CellIntOk(c) == c.k = "int" \/ (c.k = "str" /\ PyIntOk(c.s))
CellInt(c) == IF c.k = "int" THEN c.i ELSE PyInt(c.s)

\* rename(columns = {mapped[name]: name}): the column col_map keeps for a
\* canonical name takes that lower-case name
Renamed(df) ==
    [df EXCEPT !.cols = [p \in DOMAIN df.cols |->
        LET nm == df.cols[p].name
        IN IF InSeq(Lower(nm), required) /\ col_map(df, Lower(nm)) = nm
           THEN [name |-> Lower(nm), cells |-> df.cols[p].cells]
           ELSE df.cols[p]]]

RECURSIVE CoerceCols(_, _)
\* for name in required: df_copy[name] = df_copy[name].astype(int)
CoerceCols(t, r) ==
    IF r > Len(required) THEN t
    ELSE CoerceCols(SetCol(t, required[r],
             [p \in DOMAIN Col(t, required[r]) |->
                 IntCell(CellInt(Col(t, required[r])[p]))]), r + 1)

CaseA(df) ==
    LET t == Renamed(df)
        good == \A r \in DOMAIN required :
                   \A p \in DOMAIN Col(t, required[r]) :
                       CellIntOk(Col(t, required[r])[p])
    IN IF good
       THEN [ok |-> TRUE, err |-> "", via |-> "canonical", match_col |-> "",
             table |-> CoerceCols(t, 1)]
       ELSE [ok |-> FALSE, err |-> "cannot convert to int", via |-> "canonical",
             match_col |-> "", table |-> NoTable]

(***************************************************************************)
(* _detect_and_split_winning_numbers: splitting the selected column        *)
(***************************************************************************)
\* variant: commas are left in place
Normalize_KeepCommas(cell) == Strip(CollapseWs(AsStr(cell)))
\* commas to spaces, runs of blanks to one blank, trimmed
Normalize(cell) == Strip(CollapseWs(ReplaceChar(AsStr(cell), ",", " ")))

\* str.split(' ', expand = True): one row of tokens per table row
SplitRows(strs) == [p \in DOMAIN strs |-> SplitSpace(strs[p])]
\* parts.shape[1]: the longest row decides the number of columns
Width(rows) ==
    IF rows = <<>> THEN 0
    ELSE CHOOSE w \in {Len(rows[p]) : p \in DOMAIN rows} :
             \A p \in DOMAIN rows : Len(rows[p]) <= w

\* the looser split, taken only when no row of the table reached 6 tokens
HyphenRows(strs) == SplitRows([p \in DOMAIN strs |-> ReplaceChar(strs[p], "-", " ")])
PartsOf(strs, rows) == IF Width(rows) < NumFields THEN HyphenRows(strs) ELSE rows
Parts(strs) == PartsOf(strs, SplitRows(strs))

\* a cell of parts: the token, or the text of None where the row is short
NoneText == <<"N", "o", "n", "e">>
PartText(row, j) == IF j <= Len(row) THEN row[j] ELSE NoneText
\* astype(str).str.lstrip('0').replace('', '0')
ZeroFill(tok) == IF LStripChar(tok, "0") = <<>> THEN <<"0">> ELSE LStripChar(tok, "0")
FieldOk(row, j) == PyIntOk(ZeroFill(PartText(row, j)))
FieldInt(row, j) == PyInt(ZeroFill(PartText(row, j)))

\* df_copy.reset_index(drop = True); df_copy[six names] = parts[six names]:
\* the rows get the labels 0..n-1, the assignment matches rows by label
Attach(df, rows, j) ==
    [p \in 1..NRows(df) |->
        IF \E q \in DOMAIN df.index : df.index[q] = p - 1
        THEN IntCell(FieldInt(rows[CHOOSE q \in DOMAIN df.index :
                                       df.index[q] = p - 1], j))
        ELSE NaN]

RECURSIVE AttachAll(_, _, _, _)
AttachAll(t, df, rows, j) ==
    IF j > NumFields THEN t
    ELSE AttachAll(SetCol(t, required[j], Attach(df, rows, j)), df, rows, j + 1)

\* lines 105-118, on the rows of tokens that the split produced
ConvertParts(df, via, match_col, rows) ==
    LET fail(e) == [ok |-> FALSE, err |-> e, via |-> via,
                    match_col |-> match_col, table |-> NoTable]
    IN IF Width(rows) < NumFields THEN fail("could not split")
       ELSE IF \E p \in DOMAIN rows : \E j \in 1..NumFields : ~FieldOk(rows[p], j)
       THEN fail("invalid literal for int")
       ELSE [ok |-> TRUE, err |-> "", via |-> via, match_col |-> match_col,
             table |-> AttachAll([df EXCEPT !.index = RangeIndex(NRows(df))],
                                 df, rows, 1)]

\* lines 98-118
SplitColumn(df, via, match_col) ==
    ConvertParts(df, via, match_col,
                 Parts([p \in 1..NRows(df) |-> Normalize(Col(df, match_col)[p])]))

\* Case A, the column found, or the error of line 96
SplitDetected(df, d) ==
    IF d.via = "canonical" THEN CaseA(df)
    ELSE IF d.via = "none"
    THEN [ok |-> FALSE, err |-> "could not find a column", via |-> "none",
          match_col |-> "", table |-> NoTable]
    ELSE SplitColumn(df, d.via, d.match_col)

\* the whole function; preprocess() re-raises whatever it raises
DetectAndSplit(df) == SplitDetected(df, DetectColumn(df))

(***************************************************************************)
(* analyze: frequency tables and hot / cold lists                          *)
(***************************************************************************)
WhiteMax == 69
RedMax == 26
HotWhiteK == 5
HotRedK == 3
NumTickets == 10
WhitesPerTicket == 5

WhiteCols == SubSeq(required, 1, WhitesPerTicket)
\* value_counts().reindex(range(1, 70), fill_value = 0): one count for each
\* number of the range; a value outside the range has no row in the result
RECURSIVE Counts(_, _)
Counts(values, top) ==
    IF top = 0 THEN <<>>
    ELSE Append(Counts(values, top - 1),
                Cardinality({p \in DOMAIN values : values[p] = top}))
RECURSIVE ConcatCols(_, _)
\* pd.concat([df['white1'], ..., df['white5']]).astype(int)
ConcatCols(t, c) ==
    IF c = 0 THEN <<>>
    ELSE ConcatCols(t, c - 1)
           \o [p \in 1..NRows(t) |-> Col(t, WhiteCols[c])[p].i]
white_freq_of(t) == Counts(ConcatCols(t, WhitesPerTicket), WhiteMax)
red_freq_of(t) ==
    Counts([p \in 1..NRows(t) |-> Col(t, "powerball")[p].i], RedMax)

\* np.argsort(sign * observed)[:k] + 1.  The default kind is quicksort, which
\* is not stable: the order among equal counts is the sort routine's, here
\* either by ascending or by descending number (tie).
Key(obs, sign, v) == IF sign = "desc" THEN 0 - obs[v] ELSE obs[v]
Before(obs, sign, tie, v, w) ==
    \/ Key(obs, sign, v) < Key(obs, sign, w)
    \/ /\ Key(obs, sign, v) = Key(obs, sign, w)
       /\ IF tie = "ascending" THEN v <= w ELSE v >= w
RECURSIVE Scan(_, _, _, _, _, _)
\* the number that the sort puts first among those not yet taken: best is
\* the first so far (0: none), v the next number to look at
Scan(obs, sign, tie, taken, v, best) ==
    IF v > Len(obs) THEN best
    ELSE IF v \in taken THEN Scan(obs, sign, tie, taken, v + 1, best)
    ELSE IF best = 0 \/ ~Before(obs, sign, tie, best, v)
    THEN Scan(obs, sign, tie, taken, v + 1, v)
    ELSE Scan(obs, sign, tie, taken, v + 1, best)
RECURSIVE ArgSortTop(_, _, _, _, _)
RECURSIVE ArgSortFrom(_, _, _, _, _, _)
ArgSortFrom(v, obs, sign, tie, k, taken) ==
    <<v>> \o ArgSortTop(obs, sign, tie, k - 1, taken \cup {v})
\* the first k numbers of the sorted order of the numbers not yet taken
ArgSortTop(obs, sign, tie, k, taken) ==
    IF k = 0 \/ Cardinality(taken) = Len(obs) THEN <<>>
    ELSE ArgSortFrom(Scan(obs, sign, tie, taken, 1, 0), obs, sign, tie, k, taken)
TieOrders == {"ascending", "descending"}

(***************************************************************************)
(* The random sources.  A generator is a number in 0..RandMod-1; a call    *)
(* to random() returns the fraction Variate/RandRes and steps it.          *)
(***************************************************************************)
RandMod == 11
RandRes == 7
Variate(r) == (r * RandRes) \div RandMod
StepRand(r) == (r + 4) % RandMod

RECURSIVE CumSum(_, _)
CumSum(w, i) == IF i = 0 THEN 0 ELSE CumSum(w, i - 1) + w[i]
\* bisect(cum_weights, random() * total, 0, n - 1), and likewise
\* cdf.searchsorted(random(), side = 'right'): the number of leading
\* entries whose cumulative weight is at most the variate's share
RECURSIVE Walk(_, _, _, _)
Walk(w, i, acc, lim) ==
    IF i > Len(w) - 1 THEN i - 1
    ELSE IF (acc + w[i]) * RandRes <= lim THEN Walk(w, i + 1, acc + w[i], lim)
    ELSE i - 1
Bisect(w, r) == Walk(w, 1, 0, Variate(r) * CumSum(w, Len(w)))

RECURSIVE Insert(_, _)
Insert(x, seq) ==
    IF seq = <<>> THEN <<x>>
    ELSE IF x <= seq[1] THEN <<x>> \o seq
    ELSE <<seq[1]>> \o Insert(x, Tail(seq))
RECURSIVE Sorted(_)
Sorted(seq) == IF seq = <<>> THEN <<>> ELSE Insert(seq[1], Sorted(Tail(seq)))

\* random.choices(pool, weights = w, k = k): k independent draws, the pool
\* is never reduced.  pool[i] = i for both pools.
RECURSIVE Choices(_, _, _)
Choices(w, r, k) ==
    IF k = 0 THEN <<>>
    ELSE <<Bisect(w, r) + 1>> \o Choices(w, StepRand(r), k - 1)
RECURSIVE StepRandN(_, _)
StepRandN(r, k) == IF k = 0 THEN r ELSE StepRandN(StepRand(r), k - 1)

\* white_weights = observed_white + 1
PlusOne(freq) == [v \in DOMAIN freq |-> freq[v] + 1]

\* one pass of the loop body of analyze (lines 177-179)
MakeTicket(white_freq, red_freq, r) ==
    [whites |-> Sorted(Choices(PlusOne(white_freq), r, WhitesPerTicket)),
     powerball |-> Choices(PlusOne(red_freq),
                           StepRandN(r, WhitesPerTicket), 1)[1]]

(***************************************************************************)
(* streamlit_app.py: the weighted picks of the dashboard                   *)
(***************************************************************************)
NumDrawDays == 3
PicksPerDay == 5

\* the safety net of lines 147-150: all-zero weights become all ones
DashWeights(freq) ==
    IF CumSum(freq, Len(freq)) <= 0 THEN [v \in DOMAIN freq |-> 1] ELSE freq

\* the array without its entry at position i (the boolean mask of line 178)
RemoveAt(seq, i) == SubSeq(seq, 1, i - 1) \o SubSeq(seq, i + 1, Len(seq))

\* lines 174-182: up to five selections, each removing the chosen number.
\* rng.choice raises when the probabilities it is given are 0/0.
RECURSIVE SelectWhites(_, _, _, _, _)
SelectWhites(numbers, probs, r, k, selected) ==
    IF k = 0 \/ numbers = <<>>
    THEN [ok |-> TRUE, selected |-> selected, r |-> r]
    ELSE IF CumSum(probs, Len(probs)) = 0
    THEN [ok |-> FALSE, selected |-> selected, r |-> r]
    ELSE LET i == Bisect(probs, r) + 1
         IN SelectWhites(RemoveAt(numbers, i), RemoveAt(probs, i), StepRand(r),
                         k - 1, Append(selected, numbers[i]))

\* lines 183-187, after the selections sel
FinishPick(sel, power_w) ==
    [ok |-> sel.ok,
     whites |-> Sorted(sel.selected),
     powerball |-> Bisect(power_w, sel.r) + 1,
     r |-> StepRand(sel.r)]

\* one pass of the loop body of lines 166-188
DashPick(white_w, power_w, r) ==
    FinishPick(SelectWhites([v \in 1..Len(white_w) |-> v], white_w, r,
                            WhitesPerTicket, <<>>), power_w)

(***************************************************************************)
(* The input tables.  pd.read_csv gives every table the row labels         *)
(* 0..n-1; a cell is an integer, a text, or missing.                       *)
(***************************************************************************)
MaxOther == 2
MaxGood == 6
MaxBad == 21
MaxN == 2
DefaultN == 5

Rep(c, k) == [p \in 1..k |-> c]
Pad2(v) == IF v < 10 THEN <<"0">> \o NatToStr(v) ELSE NatToStr(v)
RECURSIVE Join(_, _)
\* the tokens with seps[i] between token i and token i+1
Join(toks, seps) ==
    IF Len(toks) = 1 THEN toks[1]
    ELSE toks[1] \o seps[1] \o Join(Tail(toks), Tail(seps))

NumLists == { <<4, 8, 32, 40, 48, 20>>, <<0, 8, 32, 40, 48, 20>>,
              <<70, 1, 2, 3, 4, 27>>, <<5, 5, 5, 5, 5, 5>>,
              <<1, 2, 3, 4, 5>>, <<1, 2, 3, 4, 5, 6, 7>> }
Padded(nl) == [p \in DOMAIN nl |-> Pad2(nl[p])]
Plain(nl) == [p \in DOMAIN nl |-> NatToStr(nl[p])]
\* the first token replaced by a word
Worded(nl) == [p \in DOMAIN nl |-> IF p = 1 THEN <<"x">> ELSE NatToStr(nl[p])]
TokLists == {Padded(nl) : nl \in NumLists} \cup {Plain(nl) : nl \in NumLists}
               \cup {Worded(<<4, 8, 32, 40, 48, 20>>)}

Uniform(sep, m) == [p \in 1..m |-> sep]
PlainSeps == { <<" ">>, <<",">>, <<" ", " ">>, <<",", " ">> }
\* blanks, and a hyphen joining the last two numbers
LastHyphen(m) == [p \in 1..m |-> IF p = m THEN <<"-">> ELSE <<" ">>]
\* blanks, and two hyphens after the first number
FirstDouble(m) == [p \in 1..m |-> IF p = 1 THEN <<"-", "-">> ELSE <<" ">>]
SepLists(m) == {Uniform(sep, m) : sep \in PlainSeps \cup { <<"-">> }}
                  \cup {LastHyphen(m), FirstDouble(m)}

RowTexts == {Join(tl, sl) : <<tl, sl>> \in
                {<<x, y>> \in TokLists \X (UNION {SepLists(m) : m \in 4..6}) :
                    Len(y) = Len(x) - 1}}
ParseCells == {StrCell(s) : s \in RowTexts} \cup {NaN}
OtherCells == {StrCell(Join(Padded(<<4, 8, 32, 40, 48, 20>>), Uniform(<<" ">>, 5))),
               StrCell(Join(Plain(<<1, 2, 3, 4, 5, 6>>), LastHyphen(5))),
               StrCell(Join(Plain(<<1, 2, 3, 4, 5>>), Uniform(<<" ">>, 4))),
               StrCell(Join(Plain(<<7, 8, 9>>), Uniform(<<"-">>, 2))),
               NaN}
SeqsUpTo(S, m) == UNION {[1..k -> S] : k \in 0..m}

DateCell == StrCell(<<"2", "0", "2", "4", "-", "0", "1", "-", "0", "6">>)
\* the layout of the New York data set: date, numbers, multiplier
NYTable(name, cells) ==
    [index |-> RangeIndex(Len(cells)),
     cols |-> << [name |-> "Draw Date", cells |-> Rep(DateCell, Len(cells))],
                 [name |-> name, cells |-> cells],
                 [name |-> "Multiplier", cells |-> Rep(IntCell(2), Len(cells))] >>]
ParseTables == {NYTable("Winning Numbers", <<c>> \o rest) :
                   <<c, rest>> \in ParseCells \X SeqsUpTo(OtherCells, MaxOther)}


\* tables that already have the six columns, in lower or in mixed case,
\* alone or beside a column with an alias name
MaxCanonRows == 2
IntRow(nl) == [p \in DOMAIN nl |-> IntCell(nl[p])]
OddCells == {NaN, StrCell(<<"1", "2">>), StrCell(<<"x">>)}
CanonRows ==
    {IntRow(nl) : nl \in {x \in NumLists : Len(x) = NumFields}}
      \cup {[IntRow(<<4, 8, 32, 40, 48, 20>>) EXCEPT ![j] = c] :
               <<j, c>> \in {1, NumFields} \X OddCells}
GoodCell == StrCell(Join(Padded(<<4, 8, 32, 40, 48, 20>>), Uniform(<<" ">>, 5)))
CanonNames == {required, <<"White1", "White2", "White3", "White4", "White5",
                           "Powerball">>}
CanonCols(names, rows) ==
    [j \in 1..NumFields |->
        [name |-> names[j], cells |-> [p \in DOMAIN rows |-> rows[p][j]]]]
CanonTables ==
    {[index |-> RangeIndex(Len(rows)),
      cols |-> IF extra = "" THEN CanonCols(names, rows)
               ELSE <<[name |-> extra, cells |-> Rep(GoodCell, Len(rows))]>>
                        \o CanonCols(names, rows)] :
        <<names, rows, extra>> \in
            CanonNames \X (UNION {[1..k -> CanonRows] : k \in 1..MaxCanonRows})
                       \X {"", "Numbers", "col_a"}}

\* tables for the detection: a candidate column of k values that look like
\* six numbers and m that do not, beside decoys
GoodCells == {GoodCell,
              StrCell(Join(Plain(<<4, 8, 32, 40, 48, 20, 7>>), Uniform(<<",">>, 6)))}
BadCells == {StrCell(Join(Plain(<<1, 2, 3>>), Uniform(<<" ">>, 2))),
             StrCell(Join(Padded(<<0, 8, 32, 40, 48, 20>>), Uniform(<<" ">>, 5))),
             NaN}
\* the good values first, or (the other good value) last
Candidates ==
    {IF g = GoodCell THEN Rep(g, k) \o Rep(b, m) ELSE Rep(b, m) \o Rep(g, k) :
        <<g, b, k, m>> \in
            {x \in GoodCells \X BadCells \X (0..MaxGood) \X (0..MaxBad) :
                x[3] + x[4] >= 1}}
Layouts == {"H1", "H2", "A1", "A2", "K3"}
DetectTable(layout, c) ==
    LET nrows == Len(c)
        col(name, cells) == [name |-> name, cells |-> cells]
    IN [index |-> RangeIndex(nrows),
        cols |->
          CASE layout = "H1" -> NYTable("col_a", c).cols
            [] layout = "H2" -> <<col("col_a", c), col("col_b", Rep(GoodCell, nrows))>>
            [] layout = "A1" -> <<col("col_a", Rep(GoodCell, nrows)),
                                  col("Winning Numbers", c)>>
            [] layout = "A2" -> <<col("Numbers", c),
                                  col("winning_numbers", Rep(GoodCell, nrows))>>
            [] OTHER -> SubSeq(CanonCols(required,
                                   Rep(IntRow(<<4, 8, 32, 40, 48, 20>>), nrows)),
                               1, WhitesPerTicket) \o <<col("col_a", c)>>]
DetectTables == {DetectTable(l, c) : <<l, c>> \in Layouts \X Candidates}

\* tables for the whole pipeline: one or two draws
MaxDraws == 2
DrawCells == {GoodCell,
              StrCell(Join(Padded(<<0, 8, 32, 40, 48, 20>>), Uniform(<<" ">>, 5))),
              StrCell(Join(Plain(<<70, 1, 2, 3, 4, 27>>), Uniform(<<",">>, 5))),
              StrCell(Join(Plain(<<5, 5, 5, 5, 5, 5>>), Uniform(<<" ">>, 5))),
              StrCell(Join(Plain(<<1, 2, 3>>), Uniform(<<" ">>, 2)))}
\* a first draw of any kind, then well-formed draws
PipeTables == {NYTable("Winning Numbers", <<c>> \o Rep(GoodCell, k)) :
                  <<c, k>> \in DrawCells \X (0..(MaxDraws - 1))}
DashTables == {NYTable("Winning Numbers", <<c>>) : c \in DrawCells}

(***************************************************************************)
(* State                                                                   *)
(***************************************************************************)
VARIABLES
    df,        \* the raw table handed to preprocess
    n,         \* the n argument of generate_weighted_picks_from_df
    caller,    \* "wrapper": generate_weighted_picks_from_df; "dashboard"
    pc,        \* where the run stands
    pre,       \* what _detect_and_split_winning_numbers returned or raised
    res,       \* the results dict of analyze
    rnd,       \* the generator of the random module
    returned,  \* what generate_weighted_picks_from_df returned
    dash       \* the dashboard's weights, generator and displayed picks

vars == <<df, n, caller, pc, pre, res, rnd, returned, dash>>

NoPre == [ok |-> FALSE, err |-> "", via |-> "", match_col |-> "", table |-> NoTable]
NoRes == [white_freq |-> <<>>, red_freq |-> <<>>, hot_whites |-> <<>>,
          cold_whites |-> <<>>, hot_reds |-> <<>>, cold_reds |-> <<>>,
          weighted_tickets |-> <<>>]
NoDash == [white_weights |-> <<>>, power_weights |-> <<>>, rng |-> 0,
           shown |-> <<>>]

Start == /\ pc = "preprocess"
         /\ pre = NoPre
         /\ res = NoRes
         /\ returned = <<>>
         /\ dash = NoDash

\* the whole pipeline on one or two draws
Init == /\ rnd \in 0..(RandMod - 1)
        /\ \/ caller = "wrapper" /\ n \in (0..MaxN) \cup {DefaultN}
              /\ df \in PipeTables
           \/ caller = "dashboard" /\ n = 0 /\ df \in DashTables
        /\ Start

\* the normalizer alone, on the tables that exercise detection and parsing
InitPre == /\ df \in ParseTables \cup CanonTables \cup DetectTables
           /\ rnd = 0
           /\ caller = "wrapper"
           /\ n = DefaultN
           /\ Start

(***************************************************************************)
(* Steps                                                                   *)
(***************************************************************************)
\* preprocess(df)
Preprocess ==
    /\ pc = "preprocess"
    /\ pre' = DetectAndSplit(df)
    /\ pc' = IF pre'.ok THEN "analyze" ELSE "error"
    /\ UNCHANGED <<df, n, caller, res, rnd, returned, dash>>

\* lines 163-167 on the two frequency tables
Stats(wf, rf, tie) ==
    [white_freq |-> wf,
     red_freq |-> rf,
     hot_whites |-> ArgSortTop(wf, "desc", tie, HotWhiteK, {}),
     cold_whites |-> ArgSortTop(wf, "asc", tie, HotWhiteK, {}),
     hot_reds |-> ArgSortTop(rf, "desc", tie, HotRedK, {}),
     cold_reds |-> ArgSortTop(rf, "asc", tie, HotRedK, {}),
     weighted_tickets |-> <<>>]

\* analyze(df), lines 141-173: frequencies and hot / cold lists
AnalyzeStats ==
    /\ pc = "analyze"
    /\ \E tie \in TieOrders :
          res' = Stats(white_freq_of(pre.table), red_freq_of(pre.table), tie)
    /\ pc' = "tickets"
    /\ UNCHANGED <<df, n, caller, pre, rnd, returned, dash>>

\* analyze(df), lines 175-179: one pass of for _ in range(10)
Ticket ==
    /\ pc = "tickets"
    /\ Len(res.weighted_tickets) < NumTickets
    /\ res' = [res EXCEPT !.weighted_tickets =
                  Append(@, MakeTicket(res.white_freq, res.red_freq, rnd))]
    /\ rnd' = StepRandN(rnd, WhitesPerTicket + 1)
    /\ UNCHANGED <<df, n, caller, pc, pre, returned, dash>>

\* generate_weighted_picks_from_df: return results['weighted_tickets']
Return ==
    /\ pc = "tickets"
    /\ Len(res.weighted_tickets) = NumTickets
    /\ caller = "wrapper"
    /\ returned' = res.weighted_tickets
    /\ pc' = "done"
    /\ UNCHANGED <<df, n, caller, pre, res, rnd, dash>>

\* streamlit_app.py lines 140-156: the weights and a fresh generator
DashPrepare ==
    /\ pc = "tickets"
    /\ Len(res.weighted_tickets) = NumTickets
    /\ caller = "dashboard"
    /\ \E seed \in 0..(RandMod - 1) :
          dash' = [white_weights |-> DashWeights(res.white_freq),
                   power_weights |-> DashWeights(res.red_freq),
                   rng |-> seed,
                   shown |-> <<>>]
    /\ pc' = "picks"
    /\ UNCHANGED <<df, n, caller, pre, res, rnd, returned>>

\* the state after the pick: shown, or the error caught at line 200
AfterPick(pick) ==
    IF pick.ok
    THEN /\ dash' = [dash EXCEPT
                       !.shown = Append(@, [whites |-> pick.whites,
                                            powerball |-> pick.powerball]),
                       !.rng = pick.r]
         /\ pc' = IF Len(dash.shown) + 1 = NumDrawDays * PicksPerDay
                  THEN "done" ELSE "picks"
    ELSE /\ dash' = dash
         /\ pc' = "error"

\* streamlit_app.py lines 158-188: one pick of one draw day; an error of
\* rng.choice ends the run in the except clause of line 200
DashPickStep ==
    /\ pc = "picks"
    /\ AfterPick(DashPick(dash.white_weights, dash.power_weights, dash.rng))
    /\ UNCHANGED <<df, n, caller, pre, res, rnd, returned>>

Next == \/ Preprocess
        \/ AnalyzeStats
        \/ Ticket
        \/ Return
        \/ DashPrepare
        \/ DashPickStep

NextPre == Preprocess

Spec == Init /\ [][Next]_vars
SpecPre == InitPre /\ [][NextPre]_vars

(***************************************************************************)
(* Properties                                                              *)
(***************************************************************************)
Analyzed == res.white_freq # <<>>

\* C1: every ticket of weighted_tickets has exactly 5 pairwise distinct white
\* numbers in 1..69, in ascending order, and one powerball in 1..26.
C1_TicketsDistinct ==
    \A i \in DOMAIN res.weighted_tickets :
        LET tk == res.weighted_tickets[i]
        IN /\ Len(tk.whites) = WhitesPerTicket
           /\ \A p \in DOMAIN tk.whites : tk.whites[p] \in 1..WhiteMax
           /\ \A p, q \in DOMAIN tk.whites : p < q => tk.whites[p] < tk.whites[q]
           /\ tk.powerball \in 1..RedMax

\* C5: once analyze has built the frequency tables of an accepted table, the
\* white counts add up to 5 times the number of draws and the powerball
\* counts to the number of draws, also when parsed values are 0 or lie
\* outside 1..69 / 1..26.
C5_FrequencyTotals ==
    Analyzed =>
        /\ CumSum(res.white_freq, WhiteMax) = WhitesPerTicket * NRows(pre.table)
        /\ CumSum(res.red_freq, RedMax) = NRows(pre.table)

\* list holds the k numbers that come first when the numbers of freq are
\* ranked by count (highest first if hot, lowest first otherwise) and, among
\* equal counts, by smaller number
RankedFirst(freq, list, k, hot) ==
    LET ahead(v, w) == \/ IF hot THEN freq[v] > freq[w] ELSE freq[v] < freq[w]
                       \/ freq[v] = freq[w] /\ v < w
        listed == {list[p] : p \in DOMAIN list}
    IN /\ Len(list) = k
       /\ \A p, q \in DOMAIN list : p < q => ahead(list[p], list[q])
       /\ \A v \in DOMAIN freq \ listed : \A p \in DOMAIN list : ahead(list[p], v)

\* C8: hot_whites / hot_reds are the 5 / 3 numbers with the highest counts,
\* cold_whites / cold_reds those with the lowest counts, and among equal
\* counts the smaller number is taken and listed first.
C8_HotColdTies ==
    Analyzed =>
        /\ RankedFirst(res.white_freq, res.hot_whites, HotWhiteK, TRUE)
        /\ RankedFirst(res.white_freq, res.cold_whites, HotWhiteK, FALSE)
        /\ RankedFirst(res.red_freq, res.hot_reds, HotRedK, TRUE)
        /\ RankedFirst(res.red_freq, res.cold_reds, HotRedK, FALSE)

\* C9: generate_weighted_picks_from_df(df, n) returns exactly n tickets
\* (5 when n is omitted).
C9_ReturnsNTickets ==
    (pc = "done" /\ caller = "wrapper") => Len(returned) = n

\* C10: wherever tickets are sampled the weight of a number is its observed
\* count + 1: the dashboard's weights stand in the ratio of the counts + 1,
\* so that a number never drawn keeps a positive weight.
C10_AdditiveSmoothing ==
    pc = "picks" =>
        /\ \A v, w \in 1..WhiteMax :
              dash.white_weights[v] * (res.white_freq[w] + 1)
                = dash.white_weights[w] * (res.white_freq[v] + 1)
        /\ \A v, w \in 1..RedMax :
              dash.power_weights[v] * (res.red_freq[w] + 1)
                = dash.power_weights[w] * (res.red_freq[v] + 1)

\* a displayed pick is well formed: five pairwise distinct whites in
\* 1..WhiteMax and one powerball in 1..RedMax
ValidPick(pick) ==
    /\ Len(pick.whites) = WhitesPerTicket
    /\ \A i \in DOMAIN pick.whites : pick.whites[i] \in 1..WhiteMax
    /\ \A i, j \in DOMAIN pick.whites : i # j => pick.whites[i] # pick.whites[j]
    /\ pick.powerball \in 1..RedMax

\* the loop of the dashboard has started on frequency tables whose white
\* counts are not all zero and whose powerball counts are not all zero
DashStarted ==
    /\ caller = "dashboard"
    /\ dash # NoDash
    /\ \E v \in 1..WhiteMax : res.white_freq[v] > 0
    /\ \E v \in 1..RedMax : res.red_freq[v] > 0

\* C11: in the dashboard's pick loop, for frequency tables whose white
\* counts and powerball counts are not all zero, every pick completes its
\* five remove-on-pick selections without an error and holds 5 pairwise
\* distinct whites in 1..69 and a powerball in 1..26, also when fewer than 5
\* white numbers have a non-zero count.
C11_DashPicksValid ==
    DashStarted =>
        /\ pc # "error"
        /\ \A i \in DOMAIN dash.shown : ValidPick(dash.shown[i])

(***************************************************************************)
(* Properties of the normalizer                                            *)
(***************************************************************************)
Preprocessed == pc # "preprocess"
Delimited == pre.via \in {"alias", "heuristic"}
LowerNames == {Lower(df.cols[p].name) : p \in DOMAIN df.cols}
AllSixNamed == \A r \in DOMAIN required : required[r] \in LowerNames
AliasNamed == {p \in DOMAIN df.cols :
                  \E a \in DOMAIN single_col_candidates :
                      Lower(df.cols[p].name) = single_col_candidates[a]}
\* the cell of the returned table in row p, field j
Field(p, j) == Col(pre.table, required[j])[p]
\* the column of the input that carries field j of a six-column table
InputCol(j) == df.cols[CHOOSE p \in DOMAIN df.cols :
                           Lower(df.cols[p].name) = required[j]].cells

C3_DetectionPriority ==
    Preprocessed =>
        /\ AllSixNamed =>
              /\ pre.via = "canonical" /\ pre.match_col = ""
              /\ pre.ok => \A j \in 1..NumFields : \A p \in 1..NRows(df) :
                              Field(p, j) = IntCell(CellInt(InputCol(j)[p]))
        /\ (~AllSixNamed /\ AliasNamed # {}) =>
              /\ pre.via = "alias"
              /\ \E p \in AliasNamed : df.cols[p].name = pre.match_col
        /\ (~AllSixNamed /\ AliasNamed = {}) =>
              LET hits == {p \in DOMAIN df.cols : Qualifies(df.cols[p].cells)}
              IN IF hits = {} THEN pre.via = "none" /\ ~pre.ok
                 ELSE /\ pre.via = "heuristic"
                      /\ \E p \in hits : /\ df.cols[p].name = pre.match_col
                                         /\ \A q \in hits : p <= q

\* six canonical columns were used although an alias-named column existed
C3_Witness ==
    /\ Preprocessed /\ AllSixNamed /\ AliasNamed # {}
    /\ pre.ok /\ pre.via = "canonical"

NoNameMatch == Preprocessed /\ ~AllSixNamed /\ AliasNamed = {}
SampleLen(p) == Len(Sample(df.cols[p].cells))
Looks(p) == looks_like(df.cols[p].cells)

\* C4 as first stated: 3 qualifying values among 20 sampled are enough for
\* the first such column to be selected.
C4_ThreeOfTwenty ==
    NoNameMatch =>
        \A p \in DOMAIN df.cols :
            (/\ SampleLen(p) = 20
             /\ Looks(p) >= 3
             /\ \A q \in 1..(p - 1) : Looks(q) < 3)
                => pre.match_col = df.cols[p].name

\* C4, amended: a column qualifies exactly when the number of its sampled
\* values that look like six numbers is at least 3 and at least the sample
\* size divided by 4, rounded down (5 of 20); the first qualifying column in
\* column order is selected, and none qualifying is an error.
C4_HeuristicThreshold ==
    NoNameMatch =>
        LET q(p) == Looks(p) >= 3 /\ Looks(p) >= SampleLen(p) \div 4
        IN /\ \A p \in DOMAIN df.cols :
                 (q(p) /\ \A o \in 1..(p - 1) : ~q(o))
                     => pre.via = "heuristic" /\ pre.match_col = df.cols[p].name
           /\ (\A p \in DOMAIN df.cols : ~q(p)) => pre.via = "none" /\ ~pre.ok

\* of 20 sampled values 5 qualified and the column was selected
C4_Witness ==
    /\ NoNameMatch /\ pre.via = "heuristic"
    /\ \E p \in DOMAIN df.cols :
          /\ df.cols[p].name = pre.match_col
          /\ SampleLen(p) = 20 /\ Looks(p) = 5

\* the maximal runs of characters of str that are not separators
RECURSIVE TokensOf(_, _, _)
TokensOf(str, seps, cur) ==
    LET done == IF cur = <<>> THEN <<>> ELSE <<cur>>
    IN IF str = <<>> THEN done
       ELSE IF str[1] \in seps THEN done \o TokensOf(Tail(str), seps, <<>>)
       ELSE TokensOf(Tail(str), seps, Append(cur, str[1]))
PlainTokens(cell) == TokensOf(AsStr(cell), {" ", ","}, <<>>)
HyphenTokens(cell) == TokensOf(AsStr(cell), {" ", ",", "-"}, <<>>)
MatchCell(p) == Col(df, pre.match_col)[p]
\* row p of the returned table holds the numbers written by the tokens
RowIs(p, toks) ==
    \A j \in 1..NumFields : Field(p, j) = IntCell(DigitsToNat(toks[j], 0))

\* C6: a value with fewer than 6 tokens that has at least 6 numeric tokens
\* once hyphens separate too is parsed into its first six tokens, whatever
\* the other rows hold; "could not split" is raised only when some value
\* still has fewer than 6 tokens after the hyphen retry.
C6_HyphenRetryPerRow ==
    (Preprocessed /\ Delimited) =>
        /\ \A p \in 1..NRows(df) :
              (/\ Len(PlainTokens(MatchCell(p))) < NumFields
               /\ Len(HyphenTokens(MatchCell(p))) >= NumFields
               /\ \A j \in 1..NumFields : IsDigit(HyphenTokens(MatchCell(p))[j]))
                  => pre.ok /\ RowIs(p, HyphenTokens(MatchCell(p)))
        /\ pre.err = "could not split" =>
              \E p \in 1..NRows(df) : Len(HyphenTokens(MatchCell(p))) < NumFields

\* every value of the selected column is six runs of digits separated by
\* commas and blanks only
SixPlainTokens ==
    \A p \in 1..NRows(df) :
        /\ MatchCell(p).k = "str"
        /\ \A c \in DOMAIN MatchCell(p).s :
              MatchCell(p).s[c] \in DigitSet \cup {" ", ","}
        /\ Len(PlainTokens(MatchCell(p))) = NumFields

\* C7: when every value of the selected column is six numeric tokens, the
\* six integers of a row are the numbers its tokens write, in their order,
\* leading zeros dropped and a token of zeros giving 0, whichever of commas,
\* single blanks or runs of blanks separate the tokens.
C7_SeparatorEquivalence ==
    (Preprocessed /\ Delimited /\ SixPlainTokens) =>
        /\ pre.ok
        /\ \A p \in 1..NRows(df) : RowIs(p, PlainTokens(MatchCell(p)))

\* a comma-separated row with a token "00" was parsed, beside a row
\* separated by blanks
C7_Witness ==
    /\ Preprocessed /\ Delimited /\ SixPlainTokens /\ pre.ok
    /\ \E p, o \in 1..NRows(df) :
          /\ \E c \in DOMAIN MatchCell(p).s : MatchCell(p).s[c] = ","
          /\ PlainTokens(MatchCell(p))[1] = <<"0", "0">>
          /\ Field(p, 1) = IntCell(0)
          /\ \A c \in DOMAIN MatchCell(o).s : MatchCell(o).s[c] # ","

====
